---- MODULE Spec2Model ----
(***************************************************************************)
(* Model of cajita/src/Cajita_HypreStructuredSolver.hpp: the solver base   *)
(* class HypreStructuredSolver, its seven subclasses, the builders and the *)
(* factory createHypreStructuredSolver.                                    *)
(*                                                                         *)
(* A solver object is identified by the order of its construction; the     *)
(* HYPRE solver handle an object owns is identified with the object (0 is  *)
(* the null handle).  Every operation records in `last` what it was called *)
(* with, how it ended (returned or threw) and the HYPRE calls it made.     *)
(* A field that the code leaves uninitialised is "uninit" (-1 for the      *)
(* unsigned _stencil_size); reading it is undefined behaviour and is       *)
(* modelled as a choice between the outcomes a build can show.             *)
(*                                                                         *)
(* HYPRE itself is outside the repository.  Its calls on handles that it   *)
(* created are taken to report no error, so checkHypreError never throws;  *)
(* a call that dereferences an indeterminate or null pointer ends the      *)
(* process ("crash"), and a destroy call on an indeterminate pointer       *)
(* either does nothing (the pointer happened to be null) or crashes.       *)
(*                                                                         *)
(* The data one non-preconditioner moves between the caller's arrays and   *)
(* HYPRE is followed entry by entry in `geo`: the box and periodicity of   *)
(* the grid, the stencil elements, the matrix coefficients, the right-hand *)
(* side and the solution.  Indices are functions over the dimensions       *)
(* 0..N-1 as in the code.  HYPRE orders the values of a box with the first *)
(* box dimension running fastest; Kokkos fills a new view with zeros.      *)
(***************************************************************************)
EXTENDS Integers, Sequences, FiniteSets, TLC

\* ---------------------------------------------------------------- bounds
\* Number of solver objects a run constructs: of any kind (MaxSolvers), and
\* when it builds one Krylov solver and then preconditioners (MaxChain).
MaxSolvers == 2
MaxChain == 3
\* Largest stencil (number of entries) and largest dofsPerEntity of an array.
MaxStencil == 2
MaxDofs == 2
\* Number of distinct array layouts the caller has.
NumLayouts == 2
\* Index spaces of the solver whose data is followed entry by entry: the
\* largest first owned global index and the largest number of owned entities
\* in a dimension, and the number of ghost entities on each side of the owned
\* block of a local array.
MaxMin == 1
MaxExtent == 2
HaloWidth == 1

Ids == 1..MaxChain
Layouts == 1..NumLayouts

\* ---------------------------------------------------------------- names
Krylov == {"PCG", "GMRES", "BiCGSTAB"}
Multigrid == {"PFMG", "SMG", "Jacobi"}
Classes == Krylov \cup Multigrid \cup {"Diagonal"}

\* Strings a caller may hand to the factory: the seven names and near misses.
SolverTypes ==
    Classes \cup {"pcg", "PCG ", "DIAGONAL", "", "CG"}

\* How a caller passes the trailing parameter `is_preconditioner`.
FlagArgs == {"omitted", "true", "false"}

\* `const bool is_preconditioner = false`
IsPreconditionerArg(a) == a = "true"

VARIABLES
    running,    \* the process has not crashed
    solvers,    \* Ids -> the solver objects
    next_id,    \* identity of the next object to be constructed
    x_array,    \* content of the caller's solution array
    last,       \* the last operation: arguments, outcome, HYPRE calls
    geo         \* index spaces, stencil and array entries of one solver

vars == <<running, solvers, next_id, x_array, last, geo>>

\* ------------------------------------------------------------ the objects
NoPrecond == [solve |-> "none", setup |-> "none", solver |-> -1]

NoSolver ==
    [state |-> "none", cls |-> "none", is_preconditioner |-> FALSE,
     held |-> FALSE,
     grid |-> "uninit", stencil |-> "uninit", stencil_size |-> -1,
     A |-> "uninit", b |-> "uninit", x |-> "uninit", solver |-> "uninit",
     preconditioner |-> 0, precond |-> NoPrecond]

NoLast ==
    [op |-> "none", id |-> 0, flag_arg |-> "none", name |-> "none", layout |-> 0,
     flag |-> FALSE, p |-> 0, n1 |-> 0, n2 |-> 0,
     ctor |-> "none", ctor_layout |-> 0, ctor_flag |-> FALSE,
     outcome |-> "none", calls |-> <<>>, impl |-> FALSE]

\* ------------------------------------------------ HYPRE entry points used
\* HYPRE_Struct<X>Create, called by the constructor of class X.
HypreCreateFunction(cls) ==
    CASE cls = "PCG" -> "HYPRE_StructPCGCreate"
      [] cls = "GMRES" -> "HYPRE_StructGMRESCreate"
      [] cls = "BiCGSTAB" -> "HYPRE_StructBiCGSTABCreate"
      [] cls = "PFMG" -> "HYPRE_StructPFMGCreate"
      [] cls = "SMG" -> "HYPRE_StructSMGCreate"
      [] cls = "Jacobi" -> "HYPRE_StructJacobiCreate"

\* HYPRE_Struct<X>Destroy, called by the destructor of class X.
HypreDestroyFunction(cls) ==
    CASE cls = "PCG" -> "HYPRE_StructPCGDestroy"
      [] cls = "GMRES" -> "HYPRE_StructGMRESDestroy"
      [] cls = "BiCGSTAB" -> "HYPRE_StructBiCGSTABDestroy"
      [] cls = "PFMG" -> "HYPRE_StructPFMGDestroy"
      [] cls = "SMG" -> "HYPRE_StructSMGDestroy"
      [] cls = "Jacobi" -> "HYPRE_StructJacobiDestroy"

\* HYPRE_Struct<X>SetPrecond, called by setPreconditionerImpl of a Krylov class.
HypreSetPrecondFunction(cls) == "HYPRE_Struct" \o cls \o "SetPrecond"

\* getHypreSetupFunction() of each class.
getHypreSetupFunction(cls) ==
    CASE cls = "PCG" -> "HYPRE_StructPCGSetup"
      [] cls = "GMRES" -> "HYPRE_StructGMRESSetup"
      [] cls = "BiCGSTAB" -> "HYPRE_StructBiCGSTABSetup"
      [] cls = "PFMG" -> "HYPRE_StructPFMGSetup"
      [] cls = "SMG" -> "HYPRE_StructSMGSetup"
      [] cls = "Jacobi" -> "HYPRE_StructJacobiSetup"
      [] cls = "Diagonal" -> "HYPRE_StructDiagScaleSetup"

\* getHypreSolveFunction() of each class.
getHypreSolveFunction(cls) ==
    CASE cls = "PCG" -> "HYPRE_StructPCGSolve"
      [] cls = "GMRES" -> "HYPRE_StructGMRESSolve"
      [] cls = "BiCGSTAB" -> "HYPRE_StructBiCGSTABSolve"
      [] cls = "PFMG" -> "HYPRE_StructPFMGSolve"
      [] cls = "SMG" -> "HYPRE_StructSMGSolve"
      [] cls = "Jacobi" -> "HYPRE_StructJacobiSolve"
      [] cls = "Diagonal" -> "HYPRE_StructDiagScale"

\* getHypreSolver() of object i of class cls: its own handle, null for Diagonal.
getHypreSolver(cls, i) == IF cls = "Diagonal" THEN 0 ELSE i

\* isPreconditioner()
isPreconditioner(o) == o.is_preconditioner

\* ------------------------------------------------- construction, destruction
VectorCreateCalls ==
    <<"HYPRE_StructVectorCreate", "HYPRE_StructVectorInitialize",
      "HYPRE_StructVectorSetBoxValues", "HYPRE_StructVectorAssemble">>

\* HYPRE calls of the base constructor: grid and the two vectors, made only
\* for a non-preconditioner.
BaseCtorCalls(is_preconditioner) ==
    IF is_preconditioner THEN <<>>
    ELSE <<"HYPRE_StructGridCreate", "HYPRE_StructGridSetExtents",
           "HYPRE_StructGridSetPeriodic", "HYPRE_StructGridAssemble">>
         \o VectorCreateCalls \o VectorCreateCalls

\* The base subobject after HypreStructuredSolver's constructor.  _stencil,
\* _stencil_size and _A are not set by it.
BaseCtor(is_preconditioner) ==
    [NoSolver EXCEPT
        !.state = "alive", !.held = TRUE,
        !.is_preconditioner = is_preconditioner,
        !.grid = IF is_preconditioner THEN "uninit" ELSE "live",
        !.b = IF is_preconditioner THEN "uninit" ELSE "live",
        !.x = IF is_preconditioner THEN "uninit" ELSE "live"]

\* ~HypreStructuredSolver reads _A and _stencil, which only setMatrixStencil
\* sets: on a non-preconditioner that never had a stencil it hands
\* indeterminate pointers to HYPRE's destroy functions.
BaseDtorReadsUninit(o) ==
    ~o.is_preconditioner /\ (o.A = "uninit" \/ o.stencil = "uninit")

\* A base destructor without its check of the flag.
BaseDtorCalls_always(o) ==
    <<"HYPRE_StructVectorDestroy", "HYPRE_StructVectorDestroy",
      "HYPRE_StructMatrixDestroy", "HYPRE_StructStencilDestroy",
      "HYPRE_StructGridDestroy">>

\* HYPRE calls of ~HypreStructuredSolver when it runs to its end.
BaseDtorCalls(o) ==
    IF o.is_preconditioner THEN <<>>
    ELSE <<"HYPRE_StructVectorDestroy", "HYPRE_StructVectorDestroy",
           "HYPRE_StructMatrixDestroy", "HYPRE_StructStencilDestroy",
           "HYPRE_StructGridDestroy">>

\* HYPRE calls of ~HypreStructuredSolver up to the call that faults.
BaseDtorCrashCalls ==
    <<"HYPRE_StructVectorDestroy", "HYPRE_StructVectorDestroy",
      "HYPRE_StructMatrixDestroy">>

\* A Krylov constructor without its check of the flag.
KrylovCtorThrows_never(is_preconditioner) == FALSE

\* The derived constructors' checks of the flag.
KrylovCtorThrows(is_preconditioner) == is_preconditioner
DiagonalCtorThrows(is_preconditioner) == ~is_preconditioner

DerivedCtorThrows(cls, is_preconditioner) ==
    \/ cls \in Krylov /\ KrylovCtorThrows(is_preconditioner)
    \/ cls = "Diagonal" /\ DiagonalCtorThrows(is_preconditioner)

\* HYPRE calls of the body of the derived constructor, after its check.
DerivedCtorCalls(cls, is_preconditioner) ==
    CASE cls = "PCG" -> <<"HYPRE_StructPCGCreate", "HYPRE_StructPCGSetTwoNorm">>
      [] cls \in {"GMRES", "BiCGSTAB"} -> <<HypreCreateFunction(cls)>>
      [] cls = "PFMG" ->
            <<"HYPRE_StructPFMGCreate">> \o
            (IF is_preconditioner THEN <<"HYPRE_StructPFMGSetZeroGuess">> ELSE <<>>)
      [] cls = "SMG" ->
            <<"HYPRE_StructSMGCreate">> \o
            (IF is_preconditioner THEN <<"HYPRE_StructSMGSetZeroGuess">> ELSE <<>>)
      [] cls = "Jacobi" ->
            <<"HYPRE_StructJacobiCreate">> \o
            (IF is_preconditioner THEN <<"HYPRE_StructJacobiSetZeroGuess">> ELSE <<>>)
      [] cls = "Diagonal" -> <<>>

\* Constructing an object of class cls: the base constructor, then the derived
\* one.  When the derived constructor throws, the finished base subobject is
\* destroyed while the exception unwinds.  The set of possible results.
Construct(cls, layout, is_preconditioner) ==
    LET base == BaseCtor(is_preconditioner)
        ctor == [cls |-> cls, layout |-> layout, flag |-> is_preconditioner]
    IN  IF DerivedCtorThrows(cls, is_preconditioner)
        THEN {[outcome |-> "logic_error", ctor |-> ctor, obj |-> NoSolver,
               calls |-> BaseCtorCalls(is_preconditioner) \o BaseDtorCalls(base)]}
             \cup
             (IF BaseDtorReadsUninit(base)
              THEN {[outcome |-> "crash", ctor |-> ctor, obj |-> NoSolver,
                     calls |-> BaseCtorCalls(is_preconditioner)
                               \o BaseDtorCrashCalls]}
              ELSE {})
        ELSE {[outcome |-> "ok", ctor |-> ctor,
               obj |-> [base EXCEPT
                          !.cls = cls,
                          !.solver = IF cls = "Diagonal" THEN "none" ELSE "live"],
               calls |-> BaseCtorCalls(is_preconditioner)
                         \o DerivedCtorCalls(cls, is_preconditioner)]}

\* createHypreStruct<X>( layout, is_preconditioner ): make_shared of class X.
createHypreStruct(cls, layout, is_preconditioner) ==
    Construct(cls, layout, is_preconditioner)

NoCtor == [cls |-> "none", layout |-> 0, flag |-> FALSE]

InvalidSolverType ==
    {[outcome |-> "runtime_error", ctor |-> NoCtor, obj |-> NoSolver,
      calls |-> <<>>]}

\* A factory that does not pass the flag on to the builder.
createHypreStructuredSolver_noflag(solver_type, layout, is_preconditioner) ==
    IF solver_type \in Classes
    THEN createHypreStruct(solver_type, layout, FALSE)
    ELSE InvalidSolverType

\* A factory that falls back to PCG for a name it does not know.
createHypreStructuredSolver_fallback(solver_type, layout, is_preconditioner) ==
    IF solver_type \in Classes
    THEN createHypreStruct(solver_type, layout, is_preconditioner)
    ELSE createHypreStruct("PCG", layout, is_preconditioner)

\* createHypreStructuredSolver( solver_type, layout, is_preconditioner ).
createHypreStructuredSolver(solver_type, layout, is_preconditioner) ==
    IF "PCG" = solver_type
    THEN createHypreStruct("PCG", layout, is_preconditioner)
    ELSE IF "GMRES" = solver_type
    THEN createHypreStruct("GMRES", layout, is_preconditioner)
    ELSE IF "BiCGSTAB" = solver_type
    THEN createHypreStruct("BiCGSTAB", layout, is_preconditioner)
    ELSE IF "PFMG" = solver_type
    THEN createHypreStruct("PFMG", layout, is_preconditioner)
    ELSE IF "SMG" = solver_type
    THEN createHypreStruct("SMG", layout, is_preconditioner)
    ELSE IF "Jacobi" = solver_type
    THEN createHypreStruct("Jacobi", layout, is_preconditioner)
    ELSE IF "Diagonal" = solver_type
    THEN createHypreStruct("Diagonal", layout, is_preconditioner)
    ELSE InvalidSolverType

\* The state after a construction attempt that ended as r.
AfterConstruct(r, op, name, layout, a) ==
    /\ last' = [NoLast EXCEPT
                  !.op = op, !.name = name, !.layout = layout,
                  !.flag_arg = a, !.flag = IsPreconditionerArg(a),
                  !.id = IF r.outcome = "ok" THEN next_id ELSE 0,
                  !.ctor = r.ctor.cls, !.ctor_layout = r.ctor.layout,
                  !.ctor_flag = r.ctor.flag,
                  !.outcome = r.outcome, !.calls = r.calls]
    /\ running' = (r.outcome # "crash")
    /\ IF r.outcome = "ok"
       THEN /\ solvers' = [solvers EXCEPT ![next_id] = r.obj]
            /\ next_id' = next_id + 1
       ELSE UNCHANGED <<solvers, next_id>>
    /\ UNCHANGED <<x_array, geo>>

\* A caller constructs a solver of a class with its constructor.
Constructor ==
    /\ running /\ next_id <= MaxSolvers
    /\ \E cls \in Classes, layout \in Layouts, a \in FlagArgs :
         \E r \in Construct(cls, layout, IsPreconditionerArg(a)) :
            AfterConstruct(r, "constructor", cls, layout, a)

\* A caller constructs a solver of a class through its builder.
Builder ==
    /\ running /\ next_id <= MaxSolvers
    /\ \E cls \in Classes, layout \in Layouts, a \in FlagArgs :
         \E r \in createHypreStruct(cls, layout, IsPreconditionerArg(a)) :
            AfterConstruct(r, "builder", cls, layout, a)

\* A caller asks the factory for a solver by name.
Factory ==
    /\ running /\ next_id <= MaxSolvers
    /\ \E solver_type \in SolverTypes, layout \in Layouts, a \in FlagArgs :
         \E r \in createHypreStructuredSolver(solver_type, layout,
                                              IsPreconditionerArg(a)) :
            AfterConstruct(r, "factory", solver_type, layout, a)

\* ------------------------------------------------------------- destruction
\* A solver that keeps no reference of its own to its preconditioner.
Referenced_never(S, q) == FALSE

\* Some living object holds object q in its _preconditioner.
Referenced(S, q) ==
    \E i \in Ids : S[i].state = "alive" /\ S[i].preconditioner = q

Destroyed == [NoSolver EXCEPT !.state = "destroyed"]

\* The objects after object i is destroyed: its own destructor, the base
\* destructor, then its members, of which _preconditioner releases the object
\* it points to, destroying it when that was the last reference.
RECURSIVE Destroy(_, _)
Destroy(S, i) ==
    LET q == S[i].preconditioner
        S1 == [S EXCEPT ![i] = Destroyed]
    IN  IF q # 0 /\ ~S1[q].held /\ ~Referenced(S1, q)
        THEN Destroy(S1, q)
        ELSE S1

\* The HYPRE calls of the destructors run by Destroy(S, i).
RECURSIVE DestroyCalls(_, _)
DestroyCalls(S, i) ==
    LET q == S[i].preconditioner
        S1 == [S EXCEPT ![i] = Destroyed]
        own == (IF S[i].cls = "Diagonal" THEN <<>>
                ELSE <<HypreDestroyFunction(S[i].cls)>>) \o BaseDtorCalls(S[i])
    IN  IF q # 0 /\ ~S1[q].held /\ ~Referenced(S1, q)
        THEN own \o DestroyCalls(S1, q)
        ELSE own

\* The caller drops its reference to object i; the object is destroyed when no
\* solver holds it as its preconditioner.
Release ==
    /\ running
    /\ \E i \in Ids :
         /\ solvers[i].state = "alive" /\ solvers[i].held
         /\ LET S0 == [solvers EXCEPT ![i].held = FALSE]
                base == [NoLast EXCEPT !.op = "release", !.id = i]
            IN  IF Referenced(S0, i)
                THEN /\ solvers' = S0
                     /\ last' = [base EXCEPT !.outcome = "ok"]
                     /\ running' = TRUE
                ELSE \/ /\ solvers' = Destroy(S0, i)
                        /\ last' = [base EXCEPT !.outcome = "ok",
                                                !.calls = DestroyCalls(S0, i)]
                        /\ running' = TRUE
                     \/ /\ BaseDtorReadsUninit(S0[i])
                        /\ solvers' = S0
                        /\ last' = [base EXCEPT
                                      !.outcome = "crash",
                                      !.calls = <<HypreDestroyFunction(S0[i].cls)>>
                                                \o BaseDtorCrashCalls]
                        /\ running' = FALSE
    /\ UNCHANGED <<next_id, x_array, geo>>

\* ----------------------------------------------------------- the operations
\* An operation that ends by throwing `what` without having changed anything.
Throws(base, what) ==
    /\ last' = [base EXCEPT !.outcome = what]
    /\ UNCHANGED <<running, solvers, next_id, x_array, geo>>

\* An operation that faults after the HYPRE calls `calls`.
Crashes(base, calls) ==
    /\ last' = [base EXCEPT !.outcome = "crash", !.calls = calls]
    /\ running' = FALSE
    /\ UNCHANGED <<solvers, next_id, x_array, geo>>

\* Objects the caller can call a method of.
Callable == {i \in Ids : solvers[i].state = "alive" /\ solvers[i].held}

StencilSetElementCalls(n) == [k \in 1..n |-> "HYPRE_StructStencilSetElement"]

\* setMatrixStencil assigns _stencil and _A without looking at what they hold:
\* when they hold the handles of a stencil and a matrix created by an earlier
\* call, those objects stay live with no handle left to destroy them by.
Overwritten(o) == o.stencil = "live" \/ o.A \in {"created", "assembled"}

\* setMatrixStencil( stencil, is_symmetric ) on object i, stencil of n entries.
setMatrixStencil(i, n, is_symmetric) ==
    LET o == solvers[i]
        base == [NoLast EXCEPT !.op = "setMatrixStencil", !.id = i, !.n1 = n,
                               !.flag = is_symmetric]
    IN  IF o.is_preconditioner
        THEN Throws(base, "logic_error")
        ELSE /\ solvers' = [solvers EXCEPT ![i].stencil_size = n,
                                           ![i].stencil = "live",
                                           ![i].A = "created"]
             /\ last' = [base EXCEPT
                           !.outcome = "ok",
                           !.calls = <<"HYPRE_StructStencilCreate">>
                                     \o StencilSetElementCalls(n)
                                     \o <<"HYPRE_StructMatrixCreate",
                                          "HYPRE_StructMatrixSetSymmetric">>]
             /\ UNCHANGED <<running, next_id, x_array, geo>>

\* A comparison that lets too few values through.
StencilSizeMismatch_above(dofs, stencil_size) == dofs > stencil_size

\* The comparison of setMatrixValues: dofsPerEntity against _stencil_size.
StencilSizeMismatch(dofs, stencil_size) == dofs # stencil_size

MatrixValuesCalls ==
    <<"HYPRE_StructMatrixInitialize", "HYPRE_StructMatrixSetBoxValues",
      "HYPRE_StructMatrixAssemble">>

\* setMatrixValues( values ) on object i, values with `dofs` per entity.
setMatrixValues(i, dofs) ==
    LET o == solvers[i]
        base == [NoLast EXCEPT !.op = "setMatrixValues", !.id = i, !.n1 = dofs]
    IN  IF o.is_preconditioner
        THEN Throws(base, "logic_error")
        ELSE IF o.stencil_size = -1
        THEN \* _stencil_size and _A are indeterminate
             \/ Throws(base, "runtime_error")
             \/ Crashes(base, <<"HYPRE_StructMatrixInitialize">>)
        ELSE IF StencilSizeMismatch(dofs, o.stencil_size)
        THEN Throws(base, "runtime_error")
        ELSE /\ solvers' = [solvers EXCEPT ![i].A = "assembled"]
             /\ last' = [base EXCEPT !.outcome = "ok",
                                     !.calls = MatrixValuesCalls]
             /\ UNCHANGED <<running, next_id, x_array, geo>>

\* setup() without its check for a preconditioner.
setup_unchecked(i) ==
    LET o == solvers[i]
        base == [NoLast EXCEPT !.op = "setup", !.id = i]
    IN  IF o.A = "uninit"
        THEN Crashes(base, <<getHypreSetupFunction(o.cls)>>)
        ELSE /\ last' = [base EXCEPT !.outcome = "ok", !.impl = TRUE,
                                     !.calls = <<getHypreSetupFunction(o.cls)>>]
             /\ UNCHANGED <<running, solvers, next_id, x_array, geo>>

\* setup() on object i.
setup(i) ==
    LET o == solvers[i]
        base == [NoLast EXCEPT !.op = "setup", !.id = i]
    IN  IF o.is_preconditioner
        THEN Throws(base, "logic_error")
        ELSE IF o.A = "uninit"
        THEN Crashes(base, <<getHypreSetupFunction(o.cls)>>)
        ELSE /\ last' = [base EXCEPT !.outcome = "ok", !.impl = TRUE,
                                     !.calls = <<getHypreSetupFunction(o.cls)>>]
             /\ UNCHANGED <<running, solvers, next_id, x_array, geo>>

\* A check that throws only when neither array is scalar.
NotScalarFields_both(b_dofs, x_dofs) == b_dofs # 1 /\ x_dofs # 1

\* The check of solve: both arrays hold one value per entity.
NotScalarFields(b_dofs, x_dofs) == b_dofs # 1 \/ x_dofs # 1

SolveRhsCalls ==
    <<"HYPRE_StructVectorInitialize", "HYPRE_StructVectorSetBoxValues",
      "HYPRE_StructVectorAssemble">>

\* solve( b, x ) on object i, the arrays with b_dofs and x_dofs per entity.
solve(i, b_dofs, x_dofs) ==
    LET o == solvers[i]
        base == [NoLast EXCEPT !.op = "solve", !.id = i, !.n1 = b_dofs,
                               !.n2 = x_dofs]
    IN  IF o.is_preconditioner
        THEN Throws(base, "logic_error")
        ELSE IF NotScalarFields(b_dofs, x_dofs)
        THEN Throws(base, "runtime_error")
        ELSE IF o.A = "uninit"
        THEN Crashes(base, SolveRhsCalls \o <<getHypreSolveFunction(o.cls)>>)
        ELSE /\ last' = [base EXCEPT
                           !.outcome = "ok", !.impl = TRUE,
                           !.calls = SolveRhsCalls
                                     \o <<getHypreSolveFunction(o.cls),
                                          "HYPRE_StructVectorGetBoxValues">>]
             /\ x_array' = "solution"
             /\ UNCHANGED <<running, solvers, next_id, geo>>

\* PFMG accepting a preconditioner.
setPreconditionerImplThrows_pfmg(cls) == cls \notin Krylov \cup {"PFMG"}

\* setPreconditionerImpl of class cls: does it register with HYPRE (Krylov
\* classes) or throw (all others)?
setPreconditionerImplThrows(cls) == cls \notin Krylov

\* A registration with the setup and the solve function exchanged.
setPreconditionerImpl_swapped(pcls, p) ==
    [solve |-> getHypreSetupFunction(pcls),
     setup |-> getHypreSolveFunction(pcls),
     solver |-> getHypreSolver(pcls, p)]

\* What setPreconditionerImpl of a Krylov class registers for preconditioner
\* object p of class pcls: solve function, setup function, handle.
setPreconditionerImpl(pcls, p) ==
    [solve |-> getHypreSolveFunction(pcls),
     setup |-> getHypreSetupFunction(pcls),
     solver |-> getHypreSolver(pcls, p)]

\* setPreconditioner without its second check.
NotAPreconditioner_never(po) == FALSE

\* The second check of setPreconditioner.
NotAPreconditioner(po) == ~isPreconditioner(po)

\* setPreconditioner( preconditioner ) on object i; p = 0 is a null pointer.
setPreconditioner(i, p) ==
    LET o == solvers[i]
        base == [NoLast EXCEPT !.op = "setPreconditioner", !.id = i, !.p = p]
    IN  IF o.is_preconditioner
        THEN Throws(base, "logic_error")
        ELSE IF p = 0
        THEN Crashes(base, <<>>)
        ELSE IF NotAPreconditioner(solvers[p])
        THEN Throws(base, "logic_error")
        ELSE LET q == o.preconditioner
                 S1 == [solvers EXCEPT ![i].preconditioner = p]
                 \* the assignment releases the preconditioner held before
                 gone == q # 0 /\ q # p /\ ~S1[q].held /\ ~Referenced(S1, q)
                 S2 == IF gone THEN Destroy(S1, q) ELSE S1
                 dcalls == IF gone THEN DestroyCalls(S1, q) ELSE <<>>
             IN  IF setPreconditionerImplThrows(o.cls)
                 THEN /\ solvers' = S2
                      /\ last' = [base EXCEPT !.outcome = "logic_error",
                                              !.impl = TRUE, !.calls = dcalls]
                      /\ UNCHANGED <<running, next_id, x_array, geo>>
                 ELSE /\ solvers' =
                           [S2 EXCEPT ![i].precond =
                                setPreconditionerImpl(solvers[p].cls, p)]
                      /\ last' = [base EXCEPT
                                    !.outcome = "ok", !.impl = TRUE,
                                    !.calls = dcalls \o
                                        <<HypreSetPrecondFunction(o.cls)>>]
                      /\ UNCHANGED <<running, next_id, x_array, geo>>

\* The HYPRE call of set<What>Impl, getNumIterImpl and
\* getFinalRelativeResidualNormImpl of class cls; Jacobi has no print level.
SettingCalls(cls, what) ==
    IF cls = "Jacobi" /\ what = "setPrintLevel" THEN <<>>
    ELSE <<"HYPRE_Struct" \o cls \o
           (CASE what = "setTolerance" -> "SetTol"
              [] what = "setMaxIter" -> "SetMaxIter"
              [] what = "setPrintLevel" -> "SetPrintLevel"
              [] what = "getNumIter" -> "GetNumIterations"
              [] what = "getFinalRelativeResidualNorm" ->
                    "GetFinalRelativeResidualNorm")>>

Settings ==
    {"setTolerance", "setMaxIter", "setPrintLevel", "getNumIter",
     "getFinalRelativeResidualNorm"}

\* setTolerance, setMaxIter, setPrintLevel, getNumIter and
\* getFinalRelativeResidualNorm on object i: the base class forwards to the
\* class's implementation, which for Diagonal throws.
setting(i, what) ==
    LET o == solvers[i]
        base == [NoLast EXCEPT !.op = what, !.id = i, !.impl = TRUE]
    IN  IF o.cls = "Diagonal"
        THEN Throws(base, "logic_error")
        ELSE /\ last' = [base EXCEPT !.outcome = "ok",
                                     !.calls = SettingCalls(o.cls, what)]
             /\ UNCHANGED <<running, solvers, next_id, x_array, geo>>

Setting ==
    /\ running
    /\ \E i \in Callable, what \in Settings : setting(i, what)

SetMatrixStencil ==
    /\ running
    /\ \E i \in Callable, n \in 1..MaxStencil, is_symmetric \in BOOLEAN :
         setMatrixStencil(i, n, is_symmetric)

SetMatrixValues ==
    /\ running
    /\ \E i \in Callable, dofs \in 1..MaxDofs : setMatrixValues(i, dofs)

SetPreconditioner ==
    /\ running
    /\ \E i \in Callable, p \in Callable \cup {0} : setPreconditioner(i, p)

Setup ==
    /\ running
    /\ \E i \in Callable : setup(i)

Solve ==
    /\ running
    /\ \E i \in Callable, b_dofs \in 1..MaxDofs, x_dofs \in 1..MaxDofs :
         solve(i, b_dofs, x_dofs)

\* A caller that builds one Krylov solver and then preconditioners for it.
BuilderChain ==
    /\ running /\ next_id <= MaxChain
    /\ \E cls \in Classes, layout \in Layouts, a \in FlagArgs :
         /\ IF next_id = 1
            THEN cls \in Krylov /\ ~IsPreconditionerArg(a)
            ELSE IsPreconditionerArg(a)
         /\ \E r \in createHypreStruct(cls, layout, IsPreconditionerArg(a)) :
               AfterConstruct(r, "builder", cls, layout, a)

\* ------------------------------------------------- index spaces and data
\* Spatial dimensions (ArrayLayout_t::num_space_dim) and their indices 0..N-1.
Dims == {2, 3}
SpaceDims(N) == 0..(N - 1)

\* An array layout as the constructor reads it: the owned global index space
\* [min(d), max(d)) of this rank, and of the global grid the periodicity and
\* the number of entities in each dimension.
MakeLayout(N, mn, ext, per) ==
    [N |-> N,
     min |-> mn,
     max |-> [d \in SpaceDims(N) |-> mn[d] + ext[d]],
     periodic |-> per,
     num_entity |-> [d \in SpaceDims(N) |-> ext[d] + MaxMin]]

GeoLayouts ==
    UNION {{MakeLayout(N, mn, ext, per) :
                mn \in [SpaceDims(N) -> 0..MaxMin],
                ext \in [SpaceDims(N) -> 1..MaxExtent],
                per \in [SpaceDims(N) -> BOOLEAN]} : N \in Dims}

\* global_space.extent( d )
extent(space, d) == space.max[d] - space.min[d]

\* _lower as the constructor fills it.
BoxLower(N, global_space) ==
    [d \in SpaceDims(N) |-> global_space.min[N - d - 1]]

\* An upper corner that keeps the bound of the index space.
BoxUpper_bound(N, global_space) ==
    [d \in SpaceDims(N) |-> global_space.max[N - d - 1]]

\* _upper as the constructor fills it.
BoxUpper(N, global_space) ==
    [d \in SpaceDims(N) |-> global_space.max[N - d - 1] - 1]

\* A periodicity array filled in the order of the layout's dimensions.
HyprePeriodic_ijk(N, layout) ==
    [h \in SpaceDims(N) |->
        IF layout.periodic[h] THEN layout.num_entity[h] ELSE 0]

\* The array `periodic` as the constructor fills it: entry N-1-d from
\* dimension d of the global grid.
HyprePeriodic(N, layout) ==
    [h \in SpaceDims(N) |->
        LET d == N - 1 - h
        IN  IF layout.periodic[d] THEN layout.num_entity[d] ELSE 0]

\* The grid points of the box HYPRE is given by HYPRE_StructGridSetExtents:
\* both corners belong to it.
BoxPoints(N, lower, upper) ==
    {P \in [SpaceDims(N) -> 0..(MaxMin + MaxExtent)] :
        \A d \in SpaceDims(N) : lower[d] <= P[d] /\ P[d] <= upper[d]}

NoLayout == [N |-> 0, min |-> <<>>, max |-> <<>>, periodic |-> <<>>,
             num_entity |-> <<>>]

NoGeo ==
    [phase |-> "none", N |-> 0, layout |-> NoLayout,
     lower |-> <<>>, upper |-> <<>>, periodic |-> <<>>,
     stencil |-> <<>>, hstencil |-> <<>>,
     b |-> <<>>, x |-> <<>>, hmatrix |-> <<>>, hb |-> <<>>, hx |-> <<>>,
     host |-> TRUE]

\* The extents of the view of an array over the layout with `dofs` values per
\* entity: the owned block with HaloWidth ghost entities on each side in every
\* spatial dimension, and the values of an entity as the last dimension.
ViewSize(N, layout, dofs) ==
    [d \in 0..N |-> IF d < N THEN extent(layout, d) + 2 * HaloWidth ELSE dofs]

\* The largest extent of a view.
MaxSize(size) ==
    CHOOSE m \in {size[d] : d \in DOMAIN size} :
        \A d \in DOMAIN size : size[d] <= m

\* The indices of a view of the given extents.
ViewIndices(size) ==
    {idx \in [DOMAIN size -> 0..(MaxSize(size) - 1)] :
        \A d \in DOMAIN size : idx[d] < size[d]}

\* The content of the caller's arrays: each entry holds a code of its index
\* (the index read as a decimal number), so that every entry is distinct.
RECURSIVE Code(_, _)
Code(idx, d) == IF d < 0 THEN 0 ELSE 10 * Code(idx, d - 1) + idx[d]

\* The right-hand side b, the solution array x before the solve and the
\* matrix values handed to the solver.
ForcingTerm(N, layout) ==
    [idx \in ViewIndices(ViewSize(N, layout, 1)) |-> 1 + Code(idx, N)]
InitialGuess(N, layout) ==
    [idx \in ViewIndices(ViewSize(N, layout, 1)) |-> 0 - (1 + Code(idx, N))]
MatrixEntries(N, layout, dofs) ==
    [idx \in ViewIndices(ViewSize(N, layout, dofs)) |-> 1 + Code(idx, N)]

\* An owned space that starts at the first entry of the view.
owned_space_ghosted(N, layout, dofs) ==
    [min |-> [d \in 0..N |-> 0],
     max |-> [d \in 0..N |-> IF d < N THEN extent(layout, d) ELSE dofs]]

\* array.layout()->indexSpace( Own(), Local() ): the owned block of the view.
owned_space(N, layout, dofs) ==
    [min |-> [d \in 0..N |-> IF d < N THEN HaloWidth ELSE 0],
     max |-> [d \in 0..N |->
                 IF d < N THEN HaloWidth + extent(layout, d) ELSE dofs]]

\* reorder_size: the owned extents, and `last` values per entity.
reorder_size(N, owned, back) ==
    [d \in 0..N |-> IF d < N THEN extent(owned, d) ELSE back]

\* The number of entries of a view.
RECURSIVE ViewLength(_, _)
ViewLength(size, d) ==
    IF d < 0 THEN 1 ELSE ViewLength(size, d - 1) * size[d]

\* The position of an index in the memory of a view whose first index runs
\* fastest.
RECURSIVE LayoutLeftIndex(_, _, _)
LayoutLeftIndex(size, idx, d) ==
    IF d < 0 THEN 0
    ELSE LayoutLeftIndex(size, idx, d - 1) + idx[d] * ViewLength(size, d - 1)

\* The position of an index in the memory of a Kokkos::LayoutRight view: the
\* last index runs fastest.  Called with d the last dimension.
RECURSIVE LayoutRightIndex(_, _, _)
LayoutRightIndex(size, idx, d) ==
    IF d < 0 THEN 0
    ELSE LayoutRightIndex(size, idx, d - 1) * size[d] + idx[d]

\* createSubview( view, space ): entry idx of the subview is entry
\* space.min + idx of the view.
createSubview(view, space) ==
    [idx \in ViewIndices([d \in DOMAIN space.min |-> extent(space, d)]) |->
        view[[d \in DOMAIN space.min |-> space.min[d] + idx[d]]]]

\* Kokkos::deep_copy( buffer, subview ) into a layout-right view of the
\* extents `size`, as the memory buffer.data() points to.
deep_copy(size, subview) ==
    LET R == Cardinality(DOMAIN size)
    IN  [q \in 0..(ViewLength(size, R - 1) - 1) |->
            subview[CHOOSE idx \in ViewIndices(size) :
                        LayoutRightIndex(size, idx, R - 1) = q]]

\* The number of grid points of a box in its dimensions 0..d.
RECURSIVE BoxVolume(_, _, _)
BoxVolume(lower, upper, d) ==
    IF d < 0 THEN 1
    ELSE BoxVolume(lower, upper, d - 1) * (upper[d] - lower[d] + 1)

\* The position of grid point P among the values of a box in a HYPRE
\* SetBoxValues or GetBoxValues call: the first box dimension runs fastest.
RECURSIVE HypreBoxPosition(_, _, _, _)
HypreBoxPosition(lower, upper, P, d) ==
    IF d < 0 THEN 0
    ELSE HypreBoxPosition(lower, upper, P, d - 1)
         + (P[d] - lower[d]) * BoxVolume(lower, upper, d - 1)

\* HYPRE_StructMatrixSetBoxValues( _A, lower, upper, nentries, entries,
\* values ): the coefficient HYPRE stores at each grid point of the box for
\* each of the stencil elements entries[0..nentries-1]; the values of one grid
\* point are adjacent.
HypreMatrixSetBoxValues(N, lower, upper, nentries, entries, values) ==
    [P \in BoxPoints(N, lower, upper) |->
        [s \in {entries[m] : m \in 0..(nentries - 1)} |->
            LET m == CHOOSE k \in 0..(nentries - 1) : entries[k] = s
            IN  values[HypreBoxPosition(lower, upper, P, N - 1)
                       * nentries + m]]]

\* HYPRE_StructVectorSetBoxValues( v, lower, upper, values ).
HypreVectorSetBoxValues(N, lower, upper, values) ==
    [P \in BoxPoints(N, lower, upper) |->
        values[HypreBoxPosition(lower, upper, P, N - 1)]]

\* HYPRE_StructVectorGetBoxValues( v, lower, upper, values ).
HypreVectorGetBoxValues(N, lower, upper, v) ==
    [q \in 0..(Cardinality(BoxPoints(N, lower, upper)) - 1) |->
        v[CHOOSE P \in BoxPoints(N, lower, upper) :
              HypreBoxPosition(lower, upper, P, N - 1) = q]]

\* The constructor of a non-preconditioner over `layout`: the box and the
\* periodicity it hands to HYPRE's grid.  The caller has a right-hand side and
\* a solution array over the layout.
ConstructGrid ==
    /\ geo.phase = "none"
    /\ \E layout \in GeoLayouts :
          geo' = [NoGeo EXCEPT
                    !.phase = "constructed", !.N = layout.N,
                    !.layout = layout,
                    !.lower = BoxLower(layout.N, layout),
                    !.upper = BoxUpper(layout.N, layout),
                    !.periodic = HyprePeriodic(layout.N, layout),
                    !.b = ForcingTerm(layout.N, layout),
                    !.x = InitialGuess(layout.N, layout)]
    /\ UNCHANGED <<running, solvers, next_id, x_array, last>>

\* Offsets of a stencil entry: the entity itself and its next neighbour along
\* each dimension.
Offsets(N) ==
    {[d \in SpaceDims(N) |-> 0]} \cup
    {[d \in SpaceDims(N) |-> IF d = e THEN 1 ELSE 0] : e \in SpaceDims(N)}

\* std::vector<std::array<int, NumSpaceDim>>: entries 0..size-1.
Stencils(N) ==
    UNION {[0..(n - 1) -> Offsets(N)] : n \in 1..MaxStencil}

\* The offsets setMatrixStencil hands to HYPRE_StructStencilSetElement:
\* element n gets offset[d] = stencil[n][d].
StencilElements(N, stencil) ==
    [n \in DOMAIN stencil |-> [d \in SpaceDims(N) |-> stencil[n][d]]]

\* HYPRE couples a grid point with the point at the offset of a stencil
\* element, both in the coordinates of the grid it was given.
HypreCoupled(N, P, offset) == [d \in SpaceDims(N) |-> P[d] + offset[d]]

\* setMatrixStencil( stencil, is_symmetric ): the stencil HYPRE holds.
SetStencilElements ==
    /\ geo.phase = "constructed"
    /\ \E stencil \in Stencils(geo.N) :
          geo' = [geo EXCEPT
                    !.phase = "stencil",
                    !.stencil = stencil,
                    !.hstencil = StencilElements(geo.N, stencil)]
    /\ UNCHANGED <<running, solvers, next_id, x_array, last>>

\* setMatrixValues( values ), values with one value per stencil entry: the
\* coefficients HYPRE holds afterwards.
SetBoxValues ==
    /\ geo.phase = "stencil"
    /\ LET N == geo.N
           stencil_size == Cardinality(DOMAIN geo.stencil)
           values_mirror == MatrixEntries(N, geo.layout, stencil_size)
           owned == owned_space(N, geo.layout, stencil_size)
           size == reorder_size(N, owned, stencil_size)
           a_values == deep_copy(size, createSubview(values_mirror, owned))
           indices == [m \in 0..(stencil_size - 1) |-> m]
       IN  geo' = [geo EXCEPT
                     !.phase = "values",
                     !.hmatrix = HypreMatrixSetBoxValues(
                                     N, geo.lower, geo.upper, stencil_size,
                                     indices, a_values)]
    /\ UNCHANGED <<running, solvers, next_id, x_array, last>>

\* The value HYPRE's solver returns at a grid point stands for the point: it
\* is twice the right-hand side HYPRE holds there.
HypreSolution(hb) == [P \in DOMAIN hb |-> 2 * hb[P]]

\* Kokkos::create_mirror_view( Kokkos::HostSpace(), view ): the view itself
\* when its memory is accessible from the host, otherwise a new host view of
\* the same extents, which Kokkos fills with zeros.
create_mirror_view(host, view) ==
    IF host THEN view ELSE [idx \in DOMAIN view |-> 0]

\* Kokkos::deep_copy( subview of view over space, buffer ), the buffer being
\* the memory of a layout-right view of the extents `size`.
deep_copy_back(view, space, size, buffer) ==
    LET R == Cardinality(DOMAIN size)
    IN  [idx \in DOMAIN view |->
            IF \A d \in DOMAIN size :
                  space.min[d] <= idx[d] /\ idx[d] < space.max[d]
            THEN buffer[LayoutRightIndex(
                            size, [d \in DOMAIN size |-> idx[d] - space.min[d]],
                            R - 1)]
            ELSE view[idx]]

\* solve( b, x ) with arrays in memory that the host can or cannot access:
\* what HYPRE receives as right-hand side and the content of x afterwards.
SolveCopy ==
    /\ geo.phase = "values"
    /\ \E host \in BOOLEAN :
          LET N == geo.N
              b_mirror == geo.b
              owned == owned_space(N, geo.layout, 1)
              size == reorder_size(N, owned, 1)
              vector_values == deep_copy(size, createSubview(b_mirror, owned))
              hb == HypreVectorSetBoxValues(N, geo.lower, geo.upper,
                                            vector_values)
              hx == HypreSolution(hb)
              solution == HypreVectorGetBoxValues(N, geo.lower, geo.upper, hx)
              x_mirror == create_mirror_view(host, geo.x)
          IN  geo' = [geo EXCEPT
                        !.phase = "solved", !.host = host,
                        !.hb = hb, !.hx = hx,
                        !.x = deep_copy_back(x_mirror, owned, size, solution)]
    /\ UNCHANGED <<running, solvers, next_id, x_array, last>>

Init ==
    /\ running = TRUE
    /\ solvers = [i \in Ids |-> NoSolver]
    /\ next_id = 1
    /\ x_array = "initial"
    /\ last = NoLast
    /\ geo = NoGeo

Next ==
    \/ Constructor
    \/ Builder
    \/ Factory
    \/ SetMatrixStencil
    \/ SetMatrixValues
    \/ SetPreconditioner
    \/ Setup
    \/ Solve
    \/ Setting
    \/ Release

Spec == Init /\ [][Next]_vars

NextChain ==
    \/ BuilderChain
    \/ SetMatrixStencil
    \/ SetMatrixValues
    \/ SetPreconditioner
    \/ Setup
    \/ Solve
    \/ Setting
    \/ Release

SpecChain == Init /\ [][NextChain]_vars

\* The data of one non-preconditioner from its construction to a solve.
NextGeo ==
    \/ ConstructGrid
    \/ SetStencilElements
    \/ SetBoxValues
    \/ SolveCopy

SpecGeo == Init /\ [][NextGeo]_vars

TypeOK ==
    /\ running \in BOOLEAN
    /\ next_id \in 1..(MaxChain + 1)
    /\ x_array \in {"initial", "solution"}
    /\ \A i \in Ids :
         /\ solvers[i].state \in {"none", "alive", "destroyed"}
         /\ solvers[i].state = "alive" => solvers[i].cls \in Classes
         /\ solvers[i].preconditioner \in Ids \cup {0}

\* ================================================================ claims
SevenNames == {"PCG", "GMRES", "BiCGSTAB", "PFMG", "SMG", "Jacobi", "Diagonal"}
ConstructionOps == {"constructor", "builder", "factory"}

\* C1: the factory selects the solver class by exact name: for each of the
\* seven names the constructor it runs is the one of the class of that name,
\* with the layout and the flag the factory was given; a flag the class
\* accepts yields an object, and the object returned is of the named class and
\* its isPreconditioner() equals the flag.
C1_FactorySelectsByName ==
    (last.op = "factory" /\ last.name \in SevenNames) =>
        /\ last.ctor = last.name
        /\ last.ctor_layout = last.layout
        /\ last.ctor_flag = (last.flag_arg = "true")
        /\ ( \/ last.name \in {"PFMG", "SMG", "Jacobi"}
             \/ last.name \in {"PCG", "GMRES", "BiCGSTAB"}
                /\ last.flag_arg # "true"
             \/ last.name = "Diagonal" /\ last.flag_arg = "true" )
           => last.outcome = "ok"
        /\ last.outcome = "ok" =>
              /\ last.id \in Ids
              /\ solvers[last.id].state = "alive"
              /\ solvers[last.id].cls = last.name
              /\ isPreconditioner(solvers[last.id]) = (last.flag_arg = "true")

C1_Witness ==
    /\ last.op = "factory" /\ last.name = "SMG" /\ last.flag_arg = "true"
    /\ last.layout = 2 /\ last.outcome = "ok"
    /\ solvers[last.id].cls = "SMG" /\ solvers[last.id].is_preconditioner

\* C2: the factory called with a string that is none of the seven names throws
\* std::runtime_error, runs no constructor, makes no HYPRE call and creates no
\* solver, whatever the flag.
C2_InvalidSolverType ==
    [][ (last'.op = "factory" /\ last'.name \notin SevenNames) =>
            /\ last'.outcome = "runtime_error"
            /\ last'.ctor = "none"
            /\ last'.calls = <<>>
            /\ last'.id = 0
            /\ solvers' = solvers
            /\ next_id' = next_id ]_vars

C2_Witness ==
    /\ last.op = "factory" /\ last.name = "pcg" /\ last.flag_arg = "true"
    /\ last.outcome = "runtime_error"

\* C3: PCG, GMRES and BiCGSTAB constructed with is_preconditioner = true, by
\* constructor, builder or factory, throw std::logic_error and no object
\* comes to exist; no Krylov object is ever a preconditioner.
C3_KrylovNotPreconditioner ==
    [][ /\ (/\ last'.op \in ConstructionOps
            /\ last'.name \in {"PCG", "GMRES", "BiCGSTAB"}
            /\ last'.flag_arg = "true") =>
               /\ last'.outcome = "logic_error"
               /\ last'.id = 0
               /\ solvers' = solvers
               /\ next_id' = next_id
        /\ \A i \in Ids :
              solvers'[i].cls \in {"PCG", "GMRES", "BiCGSTAB"} =>
                 ~solvers'[i].is_preconditioner ]_vars

C3_Witness ==
    /\ last.op = "factory" /\ last.name = "GMRES" /\ last.flag_arg = "true"
    /\ last.outcome = "logic_error"

\* C4: HypreStructDiagonal constructed with is_preconditioner = false, given
\* or defaulted, throws std::logic_error, and only the flag true yields a
\* Diagonal object.
C4_DiagonalNotASolver ==
    /\ (/\ last.op \in ConstructionOps
        /\ last.name = "Diagonal"
        /\ last.flag_arg \in {"omitted", "false"}) =>
           /\ last.outcome = "logic_error"
           /\ last.id = 0
    /\ \A i \in Ids :
          solvers[i].cls = "Diagonal" => solvers[i].is_preconditioner

\* C5: on an object constructed as a preconditioner, setMatrixStencil,
\* setMatrixValues, setPreconditioner, setup and solve throw std::logic_error
\* whatever their arguments, make no HYPRE call and change neither the
\* objects nor the caller's array.
C5_PreconditionerRejectsSolverCalls ==
    [][ (/\ last'.op \in {"setMatrixStencil", "setMatrixValues",
                          "setPreconditioner", "setup", "solve"}
         /\ last'.id \in Ids
         /\ solvers[last'.id].state = "alive"
         /\ solvers[last'.id].is_preconditioner) =>
            /\ last'.outcome = "logic_error"
            /\ last'.calls = <<>>
            /\ ~last'.impl
            /\ solvers' = solvers
            /\ x_array' = x_array
            /\ running' ]_vars

C5_Witness ==
    /\ last.op = "setPreconditioner" /\ last.p = 0
    /\ solvers[last.id].state = "alive" /\ solvers[last.id].is_preconditioner
    /\ last.outcome = "logic_error"

\* C6: setPreconditioner(p) on a non-preconditioner with a p that is not a
\* preconditioner throws std::logic_error, does not reach
\* setPreconditionerImpl and leaves every object, the stored preconditioner
\* included, as it was.
C6_OnlyPreconditionerAsPreconditioner ==
    [][ (/\ last'.op = "setPreconditioner"
         /\ last'.id \in Ids /\ last'.p \in Ids
         /\ solvers[last'.id].state = "alive"
         /\ ~solvers[last'.id].is_preconditioner
         /\ solvers[last'.p].state = "alive"
         /\ ~solvers[last'.p].is_preconditioner) =>
            /\ last'.outcome = "logic_error"
            /\ ~last'.impl
            /\ last'.calls = <<>>
            /\ solvers' = solvers ]_vars

C6_Witness ==
    /\ last.op = "setPreconditioner" /\ last.p \in Ids
    /\ ~solvers[last.id].is_preconditioner
    /\ ~solvers[last.p].is_preconditioner
    /\ solvers[last.id].preconditioner \in Ids
    /\ solvers[last.id].preconditioner # last.p
    /\ last.outcome = "logic_error"

\* The triple of each preconditioner class: solve function, setup function
\* and handle (h is the handle of the object itself).
TripleOf(cls, h) ==
    CASE cls = "PFMG" ->
            [solve |-> "HYPRE_StructPFMGSolve",
             setup |-> "HYPRE_StructPFMGSetup", solver |-> h]
      [] cls = "SMG" ->
            [solve |-> "HYPRE_StructSMGSolve",
             setup |-> "HYPRE_StructSMGSetup", solver |-> h]
      [] cls = "Jacobi" ->
            [solve |-> "HYPRE_StructJacobiSolve",
             setup |-> "HYPRE_StructJacobiSetup", solver |-> h]
      [] cls = "Diagonal" ->
            [solve |-> "HYPRE_StructDiagScale",
             setup |-> "HYPRE_StructDiagScaleSetup", solver |-> 0]

\* C7: on a non-preconditioner PCG, GMRES or BiCGSTAB, setPreconditioner(p)
\* with a preconditioner p succeeds and registers the solve function, the
\* setup function and the handle of p itself (for Diagonal the diagonal
\* scaling functions and the null handle); a registration changes by nothing
\* but a successful setPreconditioner, so it is that of the last one.
C7_PreconditionerChained ==
    [][ /\ (/\ last'.op = "setPreconditioner"
            /\ last'.id \in Ids /\ last'.p \in Ids
            /\ solvers[last'.id].state = "alive"
            /\ ~solvers[last'.id].is_preconditioner
            /\ solvers[last'.id].cls \in {"PCG", "GMRES", "BiCGSTAB"}
            /\ solvers[last'.p].state = "alive"
            /\ solvers[last'.p].is_preconditioner) =>
               /\ last'.outcome = "ok"
               /\ solvers'[last'.id].precond =
                     TripleOf(solvers[last'.p].cls, last'.p)
               /\ solvers'[last'.id].preconditioner = last'.p
        /\ \A i \in Ids :
              (/\ solvers'[i].state = "alive"
               /\ solvers'[i].precond # solvers[i].precond) =>
                  /\ last'.op = "setPreconditioner"
                  /\ last'.id = i
                  /\ last'.outcome = "ok" ]_vars

\* A second preconditioner replaced a first one, which was destroyed by the
\* replacement because the caller had dropped it.
C7_Witness ==
    /\ last.op = "setPreconditioner" /\ last.outcome = "ok"
    /\ last.id = 1 /\ last.p = 3
    /\ solvers[1].cls = "GMRES"
    /\ solvers[2].state = "destroyed"
    /\ solvers[3].cls = "Diagonal"
    /\ solvers[1].precond.solve = "HYPRE_StructDiagScale"
    /\ solvers[1].precond.solver = 0
    /\ last.calls = <<"HYPRE_StructSMGDestroy", "HYPRE_StructGMRESSetPrecond">>

\* C8: on a non-preconditioner PFMG, SMG or Jacobi, setPreconditioner(p)
\* throws std::logic_error for every solver p, a valid preconditioner
\* included, and nothing is registered with the HYPRE solver.
C8_MultigridNoPreconditioning ==
    [][ /\ (/\ last'.op = "setPreconditioner"
            /\ last'.id \in Ids /\ last'.p \in Ids
            /\ solvers[last'.id].state = "alive"
            /\ ~solvers[last'.id].is_preconditioner
            /\ solvers[last'.id].cls \in {"PFMG", "SMG", "Jacobi"}) =>
               /\ last'.outcome = "logic_error"
               /\ \A k \in 1..Len(last'.calls) :
                     last'.calls[k] \notin {"HYPRE_StructPFMGSetPrecond",
                                            "HYPRE_StructSMGSetPrecond",
                                            "HYPRE_StructJacobiSetPrecond"}
        /\ \A i \in Ids :
              solvers'[i].cls \in {"PFMG", "SMG", "Jacobi"} =>
                 solvers'[i].precond = NoPrecond ]_vars

C8_Witness ==
    /\ last.op = "setPreconditioner" /\ last.p \in Ids
    /\ solvers[last.id].cls = "PFMG" /\ ~solvers[last.id].is_preconditioner
    /\ solvers[last.p].is_preconditioner
    /\ last.impl
    /\ last.outcome = "logic_error"

\* C9: _stencil_size is the number of entries of the stencil of the most
\* recent setMatrixStencil; setMatrixValues on a non-preconditioner that has a
\* stencil throws std::runtime_error when the values' dofsPerEntity differs
\* from it, before any HYPRE call and with the matrix untouched, and does not
\* throw when they are equal.
C9_MatrixValuesMatchStencil ==
    [][ /\ (last'.op = "setMatrixStencil" /\ last'.outcome = "ok") =>
               solvers'[last'.id].stencil_size = last'.n1
        /\ \A i \in Ids :
              (/\ solvers'[i].state = "alive"
               /\ solvers'[i].stencil_size # solvers[i].stencil_size) =>
                  (last'.op = "setMatrixStencil" /\ last'.id = i)
        /\ (/\ last'.op = "setMatrixValues"
            /\ last'.id \in Ids
            /\ solvers[last'.id].state = "alive"
            /\ ~solvers[last'.id].is_preconditioner
            /\ solvers[last'.id].stencil_size # -1) =>
               IF last'.n1 # solvers[last'.id].stencil_size
               THEN /\ last'.outcome = "runtime_error"
                    /\ last'.calls = <<>>
                    /\ solvers' = solvers
               ELSE /\ last'.outcome = "ok"
                    /\ solvers'[last'.id].A = "assembled" ]_vars

\* Values for the first stencil are refused after a second stencil of another
\* size was set.
C9_Witness ==
    /\ last.op = "setMatrixValues" /\ last.n1 = 1
    /\ solvers[last.id].stencil_size = 2
    /\ solvers[last.id].A = "assembled"
    /\ last.outcome = "runtime_error"

\* C10: solve(b, x) on a non-preconditioner throws std::runtime_error whenever
\* b or x has more than one value per entity, before any HYPRE call, without
\* running the solver and without writing x.
C10_ScalarFieldsOnly ==
    [][ (/\ last'.op = "solve"
         /\ last'.id \in Ids
         /\ solvers[last'.id].state = "alive"
         /\ ~solvers[last'.id].is_preconditioner
         /\ (last'.n1 # 1 \/ last'.n2 # 1)) =>
            /\ last'.outcome = "runtime_error"
            /\ last'.calls = <<>>
            /\ ~last'.impl
            /\ solvers' = solvers
            /\ x_array' = x_array ]_vars

C10_Witness ==
    /\ last.op = "solve" /\ last.n1 = 1 /\ last.n2 = 2
    /\ solvers[last.id].A = "assembled"
    /\ ~solvers[last.id].is_preconditioner
    /\ last.outcome = "runtime_error"

\* An index with the order of its dimensions reversed (IJK <-> KJI).
Reversed(N, idx) == [d \in SpaceDims(N) |-> idx[N - 1 - d]]

\* The entities of the layout's owned global index space.
OwnedGlobal(layout) ==
    {g \in [SpaceDims(layout.N) -> 0..(MaxMin + MaxExtent)] :
        \A d \in SpaceDims(layout.N) :
            layout.min[d] <= g[d] /\ g[d] < layout.max[d]}

\* extent(0) * ... * extent(d) of an index space.
RECURSIVE ExtentProduct(_, _)
ExtentProduct(space, d) ==
    IF d < 0 THEN 1 ELSE ExtentProduct(space, d - 1) * extent(space, d)

\* C11: the box given to HYPRE for a non-preconditioner over an N-dimensional
\* layout has lower[d] = min(N-1-d) and upper[d] = max(N-1-d) - 1 for every d:
\* the dimensions in reversed order, the upper corner being the last owned
\* index.  Its points are the owned entities with their coordinates reversed,
\* extent(0) * ... * extent(N-1) of them.
C11_BoxIsReversedOwnedSpace ==
    geo.phase # "none" =>
        LET N == geo.N
            L == geo.layout
            box == BoxPoints(N, geo.lower, geo.upper)
        IN  /\ \A d \in SpaceDims(N) :
                  /\ geo.lower[d] = L.min[N - 1 - d]
                  /\ geo.upper[d] = L.max[N - 1 - d] - 1
            /\ box = {Reversed(N, g) : g \in OwnedGlobal(L)}
            /\ Cardinality(box) = ExtentProduct(L, N - 1)

C11_Witness ==
    /\ geo.phase = "constructed" /\ geo.N = 3
    /\ geo.layout.min = [d \in SpaceDims(3) |-> IF d = 0 THEN 1 ELSE 0]
    /\ extent(geo.layout, 0) = 1 /\ extent(geo.layout, 2) = 2
    /\ geo.lower[2] = 1 /\ geo.upper[2] = 1 /\ geo.upper[0] = 1

\* C12: the periodicity handed to HYPRE is reordered like the box: its entry
\* at position N-1-d is globalNumEntity( EntityType, d ) when the global grid
\* is periodic in dimension d and 0 otherwise, so at every HYPRE position the
\* periodic entry and the box extents come from the same dimension of the
\* layout (and a period is never shorter than the box it wraps).
C12_PeriodicityIsReversed ==
    geo.phase # "none" =>
        LET N == geo.N
            L == geo.layout
        IN  /\ \A d \in SpaceDims(N) :
                  geo.periodic[N - 1 - d] =
                      IF L.periodic[d] THEN L.num_entity[d] ELSE 0
            /\ \A h \in SpaceDims(N) :
                  \E d \in SpaceDims(N) :
                     /\ geo.lower[h] = L.min[d] /\ geo.upper[h] = L.max[d] - 1
                     /\ (geo.periodic[h] # 0) = L.periodic[d]
                     /\ geo.periodic[h] \in {0, L.num_entity[d]}
                     /\ geo.periodic[h] # 0 => geo.upper[h] < geo.periodic[h]

C12_Witness ==
    /\ geo.phase = "constructed" /\ geo.N = 3
    /\ geo.layout.periodic = [d \in SpaceDims(3) |-> d = 0]
    /\ extent(geo.layout, 0) = 2 /\ extent(geo.layout, 2) = 1
    /\ geo.periodic[2] = 2 + MaxMin /\ geo.periodic[0] = 0

\* The entity HYPRE couples entity g with through a stencil element: the grid
\* point of an entity has the entity's coordinates in reversed order.
CoupledEntity(N, g, element) ==
    Reversed(N, HypreCoupled(N, Reversed(N, g), element))

\* C13: the stencil is given as (i,j,k) offsets: for every entry n and every
\* dimension d of the layout, stencil[n][d] is applied along the HYPRE grid
\* dimension that carries dimension d, so an entry (di,dj,dk) couples entity
\* (i,j,k) with entity (i+di,j+dj,k+dk), also for stencils that are not
\* symmetric under a permutation of the dimensions.
C13_StencilOffsetsFollowGrid ==
    geo.phase \notin {"none", "constructed"} =>
        \A n \in DOMAIN geo.stencil :
           \A g \in OwnedGlobal(geo.layout) :
              CoupledEntity(geo.N, g, geo.hstencil[n]) =
                  [d \in SpaceDims(geo.N) |-> g[d] + geo.stencil[n][d]]

\* The entries of an array's view that belong to owned entities.
OwnedEntries(N, layout, view) ==
    {idx \in DOMAIN view :
        \A d \in SpaceDims(N) :
            HaloWidth <= idx[d] /\ idx[d] < HaloWidth + extent(layout, d)}

\* The global index of the entity of a view entry.
GlobalOf(N, layout, idx) ==
    [d \in SpaceDims(N) |-> layout.min[d] + idx[d] - HaloWidth]

\* The HYPRE grid point of the entity of a view entry: the entity's global
\* coordinates in reversed order.
GridPointOf(N, layout, idx) == Reversed(N, GlobalOf(N, layout, idx))

\* C14: in solve( b, x ) the value of b at every owned entity (i,j,k) is the
\* value HYPRE receives for the grid point (k,j,i), and the value HYPRE returns
\* for that grid point is written to x at (i,j,k): the layout-right position of
\* an owned entity in the buffer equals the position of its grid point in
\* HYPRE's ordering of the box.
C14_SolveCopiesEntityToGridPoint ==
    geo.phase = "solved" =>
        LET N == geo.N
            L == geo.layout
        IN  \A idx \in OwnedEntries(N, L, geo.b) :
               LET P == GridPointOf(N, L, idx)
                   o == [d \in 0..N |-> IF d < N THEN idx[d] - HaloWidth ELSE 0]
                   size == [d \in 0..N |-> IF d < N THEN extent(L, d) ELSE 1]
               IN  /\ P \in DOMAIN geo.hb
                   /\ geo.hb[P] = geo.b[idx]
                   /\ geo.x[idx] = geo.hx[P]
                   /\ LayoutRightIndex(size, o, N) =
                          HypreBoxPosition(geo.lower, geo.upper, P, N - 1)

C14_Witness ==
    /\ geo.phase = "solved" /\ geo.N = 3 /\ ~geo.host
    /\ extent(geo.layout, 0) = 2 /\ extent(geo.layout, 1) = 2
    /\ extent(geo.layout, 2) = 1
    /\ geo.layout.min = [d \in SpaceDims(3) |-> IF d = 2 THEN 1 ELSE 0]
    /\ LET idx == [d \in 0..3 |->
                     IF d = 0 THEN HaloWidth + 1 ELSE IF d = 3 THEN 0
                     ELSE HaloWidth]
           P == [d \in SpaceDims(3) |-> IF d = 0 THEN 1 ELSE IF d = 1 THEN 0 ELSE 1]
       IN  /\ geo.hb[P] = geo.b[idx]
           /\ geo.x[idx] = 2 * geo.b[idx]

\* C15: setMatrixValues hands HYPRE, for every owned entity and every stencil
\* entry s in 0..stencil_size-1, values(entity, s) as the coefficient of the
\* s-th stencil element at the entity's grid point: the element indices are
\* 0..stencil_size-1 in order with the stencil entry running fastest, and no
\* value of a ghost entity is passed.
C15_MatrixValuesPerStencilEntry ==
    geo.phase = "values" =>
        LET N == geo.N
            L == geo.layout
            stencil_size == Cardinality(DOMAIN geo.stencil)
            values == MatrixEntries(N, L, stencil_size)
            owned == OwnedEntries(N, L, values)
        IN  /\ \A idx \in owned :
                  LET P == GridPointOf(N, L, idx)
                  IN  /\ P \in DOMAIN geo.hmatrix
                      /\ DOMAIN geo.hmatrix[P] = 0..(stencil_size - 1)
                      /\ geo.hmatrix[P][idx[N]] = values[idx]
            /\ DOMAIN geo.hmatrix = {GridPointOf(N, L, idx) : idx \in owned}
            /\ UNION {{geo.hmatrix[P][s] : s \in DOMAIN geo.hmatrix[P]} :
                         P \in DOMAIN geo.hmatrix}
                   = {values[idx] : idx \in owned}

C15_Witness ==
    /\ geo.phase = "values" /\ geo.N = 3
    /\ Cardinality(DOMAIN geo.stencil) = 2
    /\ extent(geo.layout, 0) = 2 /\ extent(geo.layout, 1) = 1
    /\ extent(geo.layout, 2) = 2
    /\ geo.layout.min = [d \in SpaceDims(3) |-> 0]
    /\ LET P == [d \in SpaceDims(3) |-> IF d = 2 THEN 1 ELSE 0]
           idx == [d \in 0..3 |->
                     IF d = 0 THEN HaloWidth + 1 ELSE IF d = 3 THEN 1
                     ELSE HaloWidth]
       IN  geo.hmatrix[P][1] = 1 + Code(idx, 3)

\* The HYPRE functions that create, fill or destroy a grid, a stencil, a
\* matrix or a vector.
DataCalls ==
    {"HYPRE_StructGridCreate", "HYPRE_StructGridSetExtents",
     "HYPRE_StructGridSetPeriodic", "HYPRE_StructGridAssemble",
     "HYPRE_StructGridDestroy",
     "HYPRE_StructStencilCreate", "HYPRE_StructStencilSetElement",
     "HYPRE_StructStencilDestroy",
     "HYPRE_StructMatrixCreate", "HYPRE_StructMatrixSetSymmetric",
     "HYPRE_StructMatrixInitialize", "HYPRE_StructMatrixSetBoxValues",
     "HYPRE_StructMatrixAssemble", "HYPRE_StructMatrixDestroy",
     "HYPRE_StructVectorCreate", "HYPRE_StructVectorInitialize",
     "HYPRE_StructVectorSetBoxValues", "HYPRE_StructVectorAssemble",
     "HYPRE_StructVectorGetBoxValues", "HYPRE_StructVectorDestroy"}

\* How often a step called the HYPRE function `name`.
Times(calls, name) == Cardinality({k \in DOMAIN calls : calls[k] = name})

\* The objects a step destroyed: all of them, the preconditioners among them,
\* and those of class cls.
DestroyedNow(S, T) ==
    {q \in Ids : S[q].state = "alive" /\ T[q].state = "destroyed"}

OperationNames ==
    {"setMatrixStencil", "setMatrixValues", "setPreconditioner", "setup",
     "solve", "release"} \cup Settings

\* C16: a solver constructed with is_preconditioner = true owns no HYPRE grid,
\* stencil, matrix or vector at any time: its construction creates none, no
\* operation on it creates one, and its destruction destroys none; the only
\* HYPRE object created and destroyed for it is the solver handle of its
\* algorithm (none for Diagonal).
C16_PreconditionerOwnsOnlyItsSolver ==
    [][ /\ \A i \in Ids :
              (solvers'[i].state = "alive" /\ solvers'[i].is_preconditioner) =>
                  /\ solvers'[i].grid = "uninit" /\ solvers'[i].stencil = "uninit"
                  /\ solvers'[i].A = "uninit" /\ solvers'[i].b = "uninit"
                  /\ solvers'[i].x = "uninit"
                  /\ solvers'[i].solver =
                        IF solvers'[i].cls = "Diagonal" THEN "none" ELSE "live"
        \* construction with the flag set
        /\ (last'.op \in ConstructionOps /\ last'.ctor # "none"
            /\ last'.ctor_flag) =>
               /\ \A k \in DOMAIN last'.calls : last'.calls[k] \notin DataCalls
               /\ last'.outcome = "ok" =>
                     /\ last'.ctor # "Diagonal" =>
                           Times(last'.calls, HypreCreateFunction(last'.ctor)) = 1
                     /\ last'.ctor = "Diagonal" => last'.calls = <<>>
        \* an operation on a preconditioner
        /\ (/\ last'.op \in OperationNames /\ last'.id \in Ids
            /\ solvers[last'.id].state = "alive"
            /\ solvers[last'.id].is_preconditioner) =>
               \A k \in DOMAIN last'.calls : last'.calls[k] \notin DataCalls
        \* destruction, alone or together with the solver that held it
        /\ LET gone == DestroyedNow(solvers, solvers')
               solvers_gone == {q \in gone : ~solvers[q].is_preconditioner}
           IN  gone # {} =>
                  /\ Times(last'.calls, "HYPRE_StructGridDestroy")
                        = Cardinality(solvers_gone)
                  /\ Times(last'.calls, "HYPRE_StructStencilDestroy")
                        = Cardinality(solvers_gone)
                  /\ Times(last'.calls, "HYPRE_StructMatrixDestroy")
                        = Cardinality(solvers_gone)
                  /\ Times(last'.calls, "HYPRE_StructVectorDestroy")
                        = 2 * Cardinality(solvers_gone)
                  /\ \A cls \in Classes \ {"Diagonal"} :
                        Times(last'.calls, HypreDestroyFunction(cls)) =
                            Cardinality({q \in gone : solvers[q].cls = cls})
      ]_vars

C16_Witness ==
    /\ last.op = "release" /\ last.id \in Ids /\ last.outcome = "ok"
    /\ solvers[last.id].state = "destroyed"
    /\ last.calls = <<"HYPRE_StructSMGDestroy">>

\* C17: a successful solve( b, x ) changes only the owned entries of x: every
\* ghost entry of x holds the value it held before the call and no entry of b
\* is changed, with host-accessible memory and with a host mirror of x that is
\* a separate allocation.
C17_SolveChangesOnlyOwnedX ==
    [][ (geo.phase = "values" /\ geo'.phase = "solved") =>
            /\ geo'.b = geo.b
            /\ DOMAIN geo'.x = DOMAIN geo.x
            /\ \A idx \in DOMAIN geo.x \ OwnedEntries(geo.N, geo.layout, geo.x) :
                  geo'.x[idx] = geo.x[idx] ]_vars

\* C18: no HYPRE object is leaked or destroyed twice: whatever the sequence of
\* operations, more than one setMatrixStencil on the same solver included,
\* when the destruction of a solver completes each HYPRE grid, stencil, matrix,
\* vector and solver handle created during its lifetime has been destroyed
\* exactly once.  That is, an operation gives up the handle of a live stencil
\* or matrix only by destroying it, and the destruction of a solver destroys
\* each object it holds a handle of once.
C18_EveryHypreObjectDestroyedOnce ==
    [][ LET gone == DestroyedNow(solvers, solvers')
            Live(field) == Cardinality({q \in gone : solvers[q][field] = "live"})
        IN  /\ (/\ last'.op = "setMatrixStencil" /\ last'.outcome = "ok"
                 /\ Overwritten(solvers[last'.id])) =>
                    /\ Times(last'.calls, "HYPRE_StructStencilDestroy") = 1
                    /\ Times(last'.calls, "HYPRE_StructMatrixDestroy") = 1
            /\ gone # {} =>
               /\ Times(last'.calls, "HYPRE_StructGridDestroy") = Live("grid")
               /\ Times(last'.calls, "HYPRE_StructVectorDestroy")
                     = Live("b") + Live("x")
               /\ (\A q \in gone : ~BaseDtorReadsUninit(solvers[q])) =>
                     /\ Times(last'.calls, "HYPRE_StructStencilDestroy")
                           = Live("stencil")
                     /\ Times(last'.calls, "HYPRE_StructMatrixDestroy")
                           = Cardinality({q \in gone :
                                 solvers[q].A \in {"created", "assembled"}})
               /\ \A cls \in Classes \ {"Diagonal"} :
                     Times(last'.calls, HypreDestroyFunction(cls)) =
                         Cardinality({q \in gone : /\ solvers[q].cls = cls
                                                   /\ solvers[q].solver = "live"})
      ]_vars

\* Object p is the preconditioner registered with HYPRE for solver o.
Registered(S, o, p) ==
    /\ S[o].state = "alive" /\ S[o].precond # NoPrecond
    /\ S[o].preconditioner = p

\* The position of the first call of `name` among the HYPRE calls of a step.
FirstCall(calls, name) ==
    CHOOSE k \in DOMAIN calls :
        calls[k] = name /\ \A j \in 1..(k - 1) : calls[j] # name

\* C19 as stated: after a successful setPreconditioner( p ) the outer solver
\* shares ownership of p, so p is not destroyed before the outer solver's own
\* HYPRE solver handle has been destroyed.
C19_PreconditionerOutlivesSolver ==
    [][ \A o \in Ids, p \in Ids :
           (Registered(solvers, o, p)
            /\ p \in DestroyedNow(solvers, solvers')) =>
               o \in DestroyedNow(solvers, solvers') ]_vars

\* C19, amended: the solver shares ownership of the preconditioner registered
\* with it, so whatever the caller drops, the preconditioner HYPRE knows for a
\* living solver is a living object with a live handle, and every setup and
\* solve runs with it.  A registered preconditioner is destroyed only after
\* the solver's own HYPRE handle, in the solver's destruction, or when a later
\* successful setPreconditioner replaces it, before the new one is registered.
C19_RegisteredPreconditionerAlive ==
    [][ /\ \A o \in Ids :
              (solvers'[o].state = "alive" /\ solvers'[o].precond # NoPrecond) =>
                  LET p == solvers'[o].preconditioner
                  IN  /\ p \in Ids /\ solvers'[p].state = "alive"
                      /\ solvers'[p].cls # "Diagonal" =>
                            solvers'[p].solver = "live"
                      /\ solvers'[o].precond = TripleOf(solvers'[p].cls, p)
        /\ (/\ last'.op \in {"setup", "solve"} /\ last'.impl
            /\ last'.id \in Ids /\ solvers[last'.id].precond # NoPrecond) =>
               LET p == solvers[last'.id].preconditioner
               IN  /\ p \in Ids
                   /\ solvers[p].state = "alive" /\ solvers'[p].state = "alive"
        /\ \A o \in Ids, p \in Ids :
              (Registered(solvers, o, p)
               /\ p \in DestroyedNow(solvers, solvers')) =>
                  \/ /\ o \in DestroyedNow(solvers, solvers')
                     /\ solvers[p].cls # "Diagonal" =>
                           FirstCall(last'.calls,
                                     HypreDestroyFunction(solvers[o].cls))
                           < FirstCall(last'.calls,
                                       HypreDestroyFunction(solvers[p].cls))
                  \/ /\ last'.op = "setPreconditioner" /\ last'.id = o
                     /\ last'.outcome = "ok" /\ last'.p # p
                     /\ Registered(solvers', o, last'.p)
                     /\ last'.calls[Len(last'.calls)] =
                           HypreSetPrecondFunction(solvers[o].cls)
      ]_vars

C19_Witness ==
    /\ last.op = "solve" /\ last.id = 1 /\ last.outcome = "ok"
    /\ Registered(solvers, 1, 2)
    /\ solvers[2].state = "alive" /\ ~solvers[2].held
====
